---- MODULE Spec2Model ----
(***************************************************************************)
(* A model of src/src/vpTree.cu: the host side of cu_vp::CUDA_VPTree       *)
(* (createVPTree, buildFromPoints, knnSearch, injectDistanceFunc) and the  *)
(* device side (KNNSearchBatch, KNNSearch), one worker per CUDA thread.    *)
(*                                                                         *)
(* Conventions.  C arrays and std::vectors are functions on 0..n-1, so     *)
(* every index of the model is the index of the code.  A double is         *)
(* modelled by an integer: all coordinates are integers and the metrics    *)
(* of the model take integer values on them.  Device memory is a heap of   *)
(* allocations, device[p], p a pointer; a cell that was never written is   *)
(* not in the domain of its allocation.                                    *)
(***************************************************************************)
EXTENDS Integers, Sequences, FiniteSets, TLC

VARIABLES
    data,               \* the caller's std::vector<Point>, permuted by a build
    queries,            \* the caller's query batch
    indices,            \* the caller's result vector of indices
    distances,          \* the caller's result vector of distances
    distanceFunc,       \* CUDA_VPTree::distanceFunc (host)
    gpuDistanceFunc,    \* CUDA_VPTree::gpuDistanceFunc (device)
    num_points,         \* CUDA_VPTree::num_points
    tree_valid,         \* CUDA_VPTree::tree_valid
    gpu_nodes,          \* CUDA_VPTree::gpu_nodes, a device pointer or NULL
    gpu_points,         \* CUDA_VPTree::gpu_points, a device pointer or NULL
    device,             \* the device heap: pointer -> cells of the allocation
    pc,                 \* where the host thread is
    nodeCount,          \* buildFromPoints: nodeCount
    cpu_nodes,          \* buildFromPoints: cpu_nodes
    ranges_to_process,  \* buildFromPoints: the work list, top at the end
    kernel,             \* knnSearch: the launch in flight (its arguments)
    workers,            \* the threads of the launch in flight, by global index
    stackSize,          \* capacity of nodeStack (CUDA_STACK_SIZE of the build)
    callerMetric,       \* the host metric the caller has at hand to inject
    builtWith,          \* history: the host metric the mirrored tree was built with
    lastCall,           \* history: the last member function the caller entered
    buildsLeft,         \* the calls of createVPTree the caller has yet to make
    original,           \* the caller's copy of the sequence it last handed to createVPTree
    lastBuild,          \* history: the last completed build, its source while kept
    nthMemo             \* std::nth_element as a function: the results it has given

vars == <<data, queries, indices, distances, distanceFunc, gpuDistanceFunc,
          num_points, tree_valid, gpu_nodes, gpu_points, device, pc,
          nodeCount, cpu_nodes, ranges_to_process, kernel, workers,
          stackSize, callerMetric, builtWith, lastCall, buildsLeft,
          original, lastBuild, nthMemo>>

callerVars == <<data, queries, indices, distances, callerMetric>>
fixedVars  == <<stackSize, buildsLeft>>
treeVars   == <<num_points, tree_valid, gpu_nodes, gpu_points>>
buildVars  == <<nodeCount, cpu_nodes, ranges_to_process>>
histVars   == <<original, lastBuild, nthMemo>>

---------------------------------------------------------------------------
(* Bounds of the model.                                                    *)

\* Largest point set handed to createVPTree.
MaxPoints == 4
\* Largest query batch handed to knnSearch.
MaxBatch == 2
\* Threads per block of a launch; line 172 sets 512, the model scales it down.
BlockSize == 2
\* Largest nodeStack capacity of the scaled-down builds of StackSpec.
MaxStack == 4

(* Program constants.                                                      *)
CUDA_STACK_SIZE == 32
\* Point::coords has DIM entries; the scenarios of the specification are 2-D.
DIM == 2
\* Stands for DBL_MAX: larger than every distance of the model.
DBL_MAX == 1000000
\* nullptr
NULL == 0

---------------------------------------------------------------------------
(* Vectors and arrays, indexed from 0 as in the code.                      *)

Vec(s) == [i \in 0..(Len(s) - 1) |-> s[i + 1]]
Size(v) == Cardinality(DOMAIN v)
EmptyVec == [i \in {} |-> 0]
Swap(v, i, j) == [v EXCEPT ![i] = v[j], ![j] = v[i]]
\* std::vector::resize(n): keeps the first n elements, value-initialises the rest.
Resize(v, n) == [i \in 0..(n - 1) |-> IF i \in DOMAIN v THEN v[i] ELSE 0]

---------------------------------------------------------------------------
(* The metrics.                                                            *)

\* sqrt on the integers: exact on perfect squares, rounded down elsewhere.
Sqrt(t) == CHOOSE r \in 0..t : r * r <= t /\ t < (r + 1) * (r + 1)

\* lines 19-22: the loop body ASSIGNS the squared difference to total.
RECURSIVE EuclideanTotal(_, _, _, _)
EuclideanTotal(a, b, i, total) ==
    IF i >= DIM THEN total
    ELSE EuclideanTotal(a, b, i + 1, (b[i] - a[i]) * (b[i] - a[i]))

euclidean_distance(a, b) == Sqrt(EuclideanTotal(a, b, 0, 0))

\* lines 27-30: the same loop on the device.
RECURSIVE GpuEuclideanTotal(_, _, _, _)
GpuEuclideanTotal(a, b, i, total) ==
    IF i >= DIM THEN total
    ELSE GpuEuclideanTotal(a, b, i + 1, (b[i] - a[i]) * (b[i] - a[i]))

gpu_euclidean_distance(a, b) == Sqrt(GpuEuclideanTotal(a, b, 0, 0))

Abs(x) == IF x < 0 THEN -x ELSE x

\* A caller-supplied metric for injectDistanceFunc: the L1 distance, which is
\* symmetric and satisfies the triangle inequality.
RECURSIVE TaxicabTotal(_, _, _, _)
TaxicabTotal(a, b, i, total) ==
    IF i >= DIM THEN total
    ELSE TaxicabTotal(a, b, i + 1, total + Abs(b[i] - a[i]))

taxicab_distance(a, b) == TaxicabTotal(a, b, 0, 0)

\* A caller-supplied function that is no metric: the squared last-coordinate
\* difference is symmetric but violates the triangle inequality.
squared_distance(a, b) == (b[DIM - 1] - a[DIM - 1]) * (b[DIM - 1] - a[DIM - 1])

\* A call through a DistFunc pointer.
CallDistFunc(f, a, b) ==
    CASE f = "euclidean_distance"     -> euclidean_distance(a, b)
      [] f = "gpu_euclidean_distance" -> gpu_euclidean_distance(a, b)
      [] f = "taxicab_distance"       -> taxicab_distance(a, b)
      [] f = "gpu_taxicab_distance"   -> taxicab_distance(a, b)
      [] f = "squared_distance"       -> squared_distance(a, b)
      [] f = "gpu_squared_distance"   -> squared_distance(a, b)

\* The device twin of a host metric, as a caller pairs them.
GpuTwin(f) == IF f = "euclidean_distance" THEN "gpu_euclidean_distance"
              ELSE IF f = "taxicab_distance" THEN "gpu_taxicab_distance"
              ELSE "gpu_squared_distance"

---------------------------------------------------------------------------
(* The device heap.                                                        *)

\* cudaMalloc: a pointer that is not live; the cells start unwritten.
NewPtr(heap) == CHOOSE p \in 1..(Cardinality(DOMAIN heap) + 1) : p \notin DOMAIN heap

CudaMalloc(heap, p) == [q \in DOMAIN heap \cup {p} |-> IF q = p THEN EmptyVec ELSE heap[q]]

\* A cudaFree that releases nothing.
CudaFreeNothing(heap, p) == heap

\* cudaFree(p): cudaFree(nullptr) does nothing.
CudaFree(heap, p) == [q \in DOMAIN heap \ {p} |-> heap[q]]

\* cudaMemcpy host to device of the whole vector v.
CudaMemcpyTo(heap, p, v) == [heap EXCEPT ![p] = v]

\* gpuErrchk(call) on a call that failed: the error is reported and the
\* enclosing member function goes no further.
GpuErrchkFailed == "aborted"

\* The heap and the member pointer after lines 273-277 or 155-159 when a call
\* of that passage fails at the stage named: the cudaFree of the old mirror,
\* the cudaMalloc of the new one, or a call after it (cudaMemGetInfo, cudaMemcpy).
ReplaceFailed(heap, old, stage) ==
    LET freed == CudaFree(heap, old)
        p == NewPtr(freed)
    IN  CASE stage = "free"   -> [ptr |-> old, heap |-> heap]
          [] stage = "malloc" -> [ptr |-> NULL, heap |-> freed]
          [] stage = "copy"   -> [ptr |-> p, heap |-> CudaMalloc(freed, p)]

\* cudaFree is only called on a pointer that is not null.
FailStages(old) == IF old = NULL THEN {"malloc", "copy"} ELSE {"free", "malloc", "copy"}

---------------------------------------------------------------------------
(* buildFromPoints, lines 226-283.                                         *)

\* A freshly constructed CUDA_VPNode: no children.
DefaultNode == [index |-> 0, threshold |-> 0, left |-> -1, right |-> -1]

\* DistComparator(item, f)(a, b): a is closer to item than b.
DistComparator(item, f, a, b) == CallDistFunc(f, item, a) < CallDistFunc(f, item, b)

Bijections(S) == {p \in [S -> S] : \A i, j \in S : p[i] = p[j] => i = j}

\* A partition step that leaves the range as it found it.
NthElementNone(v, first, nth, last, item, f) == {v}

\* std::nth_element(first, nth, last, comp) on v: any rearrangement of
\* [first, last) after which no element before nth compares greater than
\* v[nth] and no element after it compares less.
NthElement(v, first, nth, last, item, f) ==
    LET R == first..(last - 1)
        Rearranged(p) == [i \in DOMAIN v |-> IF i \in R THEN v[p[i]] ELSE v[i]]
        Post(w) == /\ \A i \in first..(nth - 1) : ~DistComparator(item, f, w[nth], w[i])
                   /\ \A j \in (nth + 1)..(last - 1) : ~DistComparator(item, f, w[j], w[nth])
    IN  {w \in {Rearranged(p) : p \in Bijections(R)} : Post(w)}

\* The sequences the caller can hand to createVPTree: its vector as the last
\* build left it, or that vector restored from the copy to its earlier order.
CallerSequences == {data, original}

\* createVPTree, lines 151-153: the call of buildFromPoints and its lines 228-232.
CreateVPTree ==
    /\ pc = "idle"
    /\ buildsLeft > 0
    /\ buildsLeft' = buildsLeft - 1
    /\ pc' = "build"
    /\ \E v \in CallerSequences :
         /\ data' = v
         /\ original' = v
         /\ num_points' = Size(v)
         /\ cpu_nodes' = [i \in 0..(Size(v) - 1) |-> DefaultNode]
         /\ ranges_to_process' = << <<0, Size(v)>> >>
    /\ nodeCount' = 0
    /\ lastCall' = "createVPTree"
    /\ UNCHANGED <<queries, indices, distances, callerMetric, distanceFunc,
                   gpuDistanceFunc, tree_valid, gpu_nodes, gpu_points, device,
                   kernel, workers, stackSize, builtWith, lastBuild, nthMemo>>

\* One iteration of the loop of lines 234-271 on an empty range.
BuildSkip ==
    /\ pc = "build"
    /\ ranges_to_process # << >>
    /\ LET top == ranges_to_process[Len(ranges_to_process)]
       IN  /\ top[1] = top[2]
           /\ ranges_to_process' = SubSeq(ranges_to_process, 1, Len(ranges_to_process) - 1)
    /\ UNCHANGED <<callerVars, distanceFunc, gpuDistanceFunc, treeVars, device, pc,
                   nodeCount, cpu_nodes, kernel, workers, fixedVars, histVars, builtWith, lastCall>>

\* One iteration on a range of one point: a leaf, lines 242-243.
BuildLeaf ==
    /\ pc = "build"
    /\ ranges_to_process # << >>
    /\ LET top == ranges_to_process[Len(ranges_to_process)]
           lower == top[1]
           upper == top[2]
       IN  /\ upper - lower = 1
           /\ ranges_to_process' = SubSeq(ranges_to_process, 1, Len(ranges_to_process) - 1)
           /\ cpu_nodes' = [cpu_nodes EXCEPT ![nodeCount].index = lower]
           /\ nodeCount' = nodeCount + 1
    /\ UNCHANGED <<callerVars, distanceFunc, gpuDistanceFunc, treeVars, device, pc,
                   kernel, workers, fixedVars, histVars, builtWith, lastCall>>

\* The offset without line 249: m comes from rand() and differs from one build
\* to the next (here 1 in the first of two builds, 0 in the last).
VantageIndexRandom(lower, upper) == (buildsLeft * (upper - lower - 1)) + lower

\* The vantage point's offset, lines 248-250: m is overwritten with 0.5.
VantageIndex(lower, upper) == ((upper - lower - 1) \div 2) + lower

\* The node of lines 263-267.
SplitNode(w, lower, median, upper, f) ==
    [index     |-> lower,
     threshold |-> CallDistFunc(f, w[lower], w[median]),
     left      |-> IF median # lower + 1 THEN lower + 1 ELSE -1,
     right     |-> IF upper # median THEN median ELSE -1]

\* std::nth_element is a function of its arguments: a call it has answered
\* before gets the same answer, any other call any admissible one.  A call is
\* the vector, first, nth, last and the comparator's metric; the comparator's
\* item is v[first - 1].
NthElementCall(memo, call, item) ==
    IF call \in DOMAIN memo THEN {memo[call]}
    ELSE NthElement(call[1], call[2], call[3], call[4], item, call[5])

Remember(memo, call, w) ==
    [c \in DOMAIN memo \cup {call} |-> IF c = call THEN w ELSE memo[c]]

\* Child ranges that leave the vantage point in the left range.
ChildRangesKeepVantage(lower, median, upper) ==
    << <<median, upper>>, <<lower, median>> >>

\* Child ranges pushed left first, so that the right range is processed first.
ChildRangesLeftFirst(lower, median, upper) ==
    << <<lower + 1, median>>, <<median, upper>> >>

\* lines 268-269: the right range is pushed first, the left range on top of it.
ChildRanges(lower, median, upper) == << <<median, upper>>, <<lower + 1, median>> >>

\* One iteration on a range of several points, lines 242-269.
BuildSplit ==
    /\ pc = "build"
    /\ ranges_to_process # << >>
    /\ LET top == ranges_to_process[Len(ranges_to_process)]
           lower == top[1]
           upper == top[2]
           swapped == Swap(data, lower, VantageIndex(lower, upper))
           median == (upper + lower) \div 2
           call == <<swapped, lower + 1, median, upper, distanceFunc>>
       IN  /\ upper - lower > 1
           /\ \E w \in NthElementCall(nthMemo, call, swapped[lower]) :
                /\ data' = w
                /\ cpu_nodes' = [cpu_nodes EXCEPT ![nodeCount] =
                                    SplitNode(w, lower, median, upper, distanceFunc)]
                \* remembered for the builds that can follow
                /\ nthMemo' = IF buildsLeft > 0 THEN Remember(nthMemo, call, w)
                                                ELSE nthMemo
           /\ nodeCount' = nodeCount + 1
           /\ ranges_to_process' =
                SubSeq(ranges_to_process, 1, Len(ranges_to_process) - 1)
                    \o ChildRanges(lower, median, upper)
    /\ UNCHANGED <<queries, indices, distances, callerMetric, distanceFunc,
                   gpuDistanceFunc, treeVars, device, pc, kernel, workers, fixedVars,
                   original, lastBuild, builtWith, lastCall>>

\* Lines 273-282, once the work list is empty: the node table replaces the
\* device mirror.
BuildUpload ==
    /\ pc = "build"
    /\ ranges_to_process = << >>
    /\ LET freed == CudaFree(device, gpu_nodes)
           p == NewPtr(freed)
       IN  /\ gpu_nodes' = p
           /\ device' = CudaMemcpyTo(CudaMalloc(freed, p), p, cpu_nodes)
    /\ pc' = "upload"
    /\ UNCHANGED <<callerVars, distanceFunc, gpuDistanceFunc, num_points, tree_valid,
                   gpu_points, buildVars, kernel, workers, fixedVars, histVars, builtWith, lastCall>>

\* Lines 273-282 with a device call that fails.
BuildUploadAbort ==
    /\ pc = "build"
    /\ ranges_to_process = << >>
    /\ \E stage \in FailStages(gpu_nodes) :
         LET r == ReplaceFailed(device, gpu_nodes, stage)
         IN  gpu_nodes' = r.ptr /\ device' = r.heap
    /\ pc' = GpuErrchkFailed
    /\ UNCHANGED <<callerVars, distanceFunc, gpuDistanceFunc, num_points, tree_valid,
                   gpu_points, buildVars, kernel, workers, fixedVars, histVars,
                   builtWith, lastCall>>

\* createVPTree, lines 155-165: the point array replaces its mirror and the
\* tree becomes valid.  cpu_nodes goes out of scope with buildFromPoints.
CreateUpload ==
    /\ pc = "upload"
    /\ LET freed == CudaFree(device, gpu_points)
           p == NewPtr(freed)
       IN  /\ gpu_points' = p
           /\ device' = CudaMemcpyTo(CudaMalloc(freed, p), p, data)
    /\ tree_valid' = TRUE
    /\ builtWith' = distanceFunc
    /\ pc' = "idle"
    /\ nodeCount' = 0
    /\ cpu_nodes' = EmptyVec
    \* the caller keeps its copy only while it has a build to make
    /\ original' = IF buildsLeft > 0 THEN original ELSE EmptyVec
    /\ lastBuild' = [n |-> num_points, src |-> original', nodes |-> cpu_nodes,
                     pts |-> data]
    /\ UNCHANGED nthMemo
    /\ UNCHANGED <<callerVars, distanceFunc, gpuDistanceFunc, num_points, gpu_nodes,
                   ranges_to_process, kernel, workers, fixedVars, lastCall>>

\* Lines 155-164 with a device call that fails: line 165 is not reached.
CreateUploadAbort ==
    /\ pc = "upload"
    /\ \E stage \in FailStages(gpu_points) :
         LET r == ReplaceFailed(device, gpu_points, stage)
         IN  gpu_points' = r.ptr /\ device' = r.heap
    /\ pc' = GpuErrchkFailed
    /\ UNCHANGED <<callerVars, distanceFunc, gpuDistanceFunc, num_points, tree_valid,
                   gpu_nodes, buildVars, kernel, workers, fixedVars, histVars,
                   builtWith, lastCall>>

---------------------------------------------------------------------------
(* injectDistanceFunc, lines 142-147.                                      *)

InjectDistanceFunc ==
    /\ pc = "idle"
    /\ distanceFunc' = callerMetric
    /\ gpuDistanceFunc' = GpuTwin(callerMetric)
    /\ lastCall' = "injectDistanceFunc"
    /\ UNCHANGED <<callerVars, treeVars, device, pc, buildVars, kernel, workers,
                   fixedVars, histVars, builtWith>>

---------------------------------------------------------------------------
(* KNNSearch, lines 43-107: the locals of one worker and one iteration of  *)
(* its loop.  nodeStack holds the slots 0..stackPtr; maxSlot records the   *)
(* highest slot a push has written, visited the nodes that have been       *)
(* current at line 57, in order.                                           *)

\* A thread that has not run yet, or has returned.
IdleWorker(at) ==
    [pc |-> at, best_idx |-> -1, best_dist |-> DBL_MAX, nodeStack |-> EmptyVec,
     stackPtr |-> -1, currNodeIdx |-> -1, tau |-> DBL_MAX, maxSlot |-> 0,
     visited |-> << >>]

\* lines 47-54.
KNNSearchEntry ==
    [pc |-> "loop", best_idx |-> -1, best_dist |-> DBL_MAX,
     nodeStack |-> [i \in {0} |-> -1], stackPtr |-> 0, currNodeIdx |-> 0,
     tau |-> DBL_MAX, maxSlot |-> 0, visited |-> << >>]

\* line 55.
LoopCondition(w) == w.stackPtr >= 0 \/ w.currNodeIdx # -1

\* nodeStack[++stackPtr] = v
Push(w, v) ==
    [w EXCEPT !.stackPtr = w.stackPtr + 1,
              !.nodeStack = [i \in 0..(w.stackPtr + 1) |->
                                IF i = w.stackPtr + 1 THEN v ELSE w.nodeStack[i]],
              !.maxSlot = IF w.stackPtr + 1 > w.maxSlot THEN w.stackPtr + 1 ELSE w.maxSlot]

\* No node occurs twice in the sequence s.
NoRepeat(s) == \A i, j \in 1..Len(s) : s[i] = s[j] => i = j

\* The history of the nodes made current: kept up to and including the first
\* node that comes round a second time.
Visit(w) ==
    IF NoRepeat(w.visited) THEN [w EXCEPT !.visited = Append(@, w.currNodeIdx)] ELSE w

\* A best-so-far that a point at the same distance replaces.
ImproveOnTie(w, dist) ==
    IF dist <= w.tau
    THEN [w EXCEPT !.best_idx = w.currNodeIdx, !.best_dist = dist, !.tau = dist]
    ELSE w

\* A best-so-far that leaves the pruning radius where it was.
ImproveKeepTau(w, dist) ==
    IF dist < w.tau
    THEN [w EXCEPT !.best_idx = w.currNodeIdx, !.best_dist = dist]
    ELSE w

\* lines 59-63.
Improve(w, dist) ==
    IF dist < w.tau
    THEN [w EXCEPT !.best_idx = w.currNodeIdx, !.best_dist = dist, !.tau = dist]
    ELSE w

\* A traversal that descends only into the near side.
PushChildrenNearOnly(w, node, dist) ==
    IF dist < node.threshold THEN Push(w, node.left) ELSE Push(w, node.right)

\* lines 70-76 and 85-91: the children pushed at an inner node, in order.
PushChildren(w, node, dist) ==
    LET far  == dist + w.tau >= node.threshold
        near == dist - w.tau <= node.threshold
    IN  IF dist < node.threshold
        THEN LET w1 == IF far THEN Push(w, node.right) ELSE w
             IN  IF near THEN Push(w1, node.left) ELSE w1
        ELSE LET w1 == IF near THEN Push(w, node.left) ELSE w
             IN  IF far THEN Push(w1, node.right) ELSE w1

\* A capacity test that leaves no room for the sentinel of slot 0.
StackOverflowEarly(w, S) == w.stackPtr >= S - 1

\* lines 77 and 92: the capacity test, made after the pushes.
StackOverflow(w, S) == w.stackPtr > S

\* lines 79-82 and 94-97.
FailSentinel(w) == [w EXCEPT !.best_idx = -1, !.best_dist = -1, !.pc = "exit"]

\* What a read of nodeStack[slot] can yield: the value pushed, or, for a slot
\* past the end of the array (undefined behaviour), any node index or -1.
StackRead(w, slot, S, n) ==
    IF slot < S THEN {w.nodeStack[slot]} ELSE {w.nodeStack[slot]} \cup (-1..(n - 1))

\* lines 101-103.
Pop(w, S, n) ==
    IF w.stackPtr >= 0
    THEN {[w EXCEPT !.currNodeIdx = v,
                    !.stackPtr = w.stackPtr - 1,
                    !.nodeStack = [i \in 0..(w.stackPtr - 1) |-> w.nodeStack[i]]] :
            v \in StackRead(w, w.stackPtr, S, n)}
    ELSE {w}

\* One iteration of the loop, lines 56-103: the set of states it can end in.
\* A read of pts or nodes outside the array is undefined behaviour: the thread
\* is then at "undefined" and the model follows it no further.
KNNSearchStep(w, nodes, pts, query, distFunc, S) ==
    IF w.currNodeIdx = -1 THEN Pop(w, S, Size(nodes))
    ELSE IF w.currNodeIdx \notin DOMAIN pts \/ w.currNodeIdx \notin DOMAIN nodes
    THEN {[w EXCEPT !.pc = "undefined"]}
    ELSE LET dist == CallDistFunc(distFunc, query, pts[w.currNodeIdx])
             w1 == Improve(Visit(w), dist)
             node == nodes[w.currNodeIdx]
         IN  IF node.left = -1 /\ node.right = -1
             THEN {[w1 EXCEPT !.currNodeIdx = -1]}
             ELSE LET w2 == PushChildren(w1, node, dist)
                  IN  IF StackOverflow(w2, S) THEN {FailSentinel(w2)}
                      ELSE Pop(w2, S, Size(nodes))

---------------------------------------------------------------------------
(* knnSearch, lines 168-212, and KNNSearchBatch, lines 120-130.            *)

NoKernel == [nodes |-> NULL, pts |-> NULL, num_pts |-> 0, queries |-> NULL,
             num_queries |-> 0, ret_index |-> NULL, ret_dist |-> NULL,
             distFunc |-> "none"]

\* line 170 without its test.
TreeUsableAlways == TRUE

\* line 170.
TreeUsable == tree_valid

\* line 173 and the launch of line 201: numBlocks blocks of blockSize threads.
NumBlocks(n) == (n + BlockSize - 1) \div BlockSize
Threads(n) == 0..(NumBlocks(n) * BlockSize - 1)

\* lines 170-171: the call returns at once.
KnnSearchInvalid ==
    /\ pc = "idle"
    /\ ~TreeUsable
    /\ lastCall' = "knnSearch"
    /\ UNCHANGED <<callerVars, distanceFunc, gpuDistanceFunc, treeVars, device, pc,
                   buildVars, kernel, workers, fixedVars, histVars, builtWith>>

\* lines 172-201: resize the outputs, allocate and fill the device buffers,
\* launch the kernel.
KnnSearchLaunch ==
    /\ pc = "idle"
    /\ TreeUsable
    /\ lastCall' = "knnSearch"
    /\ LET n  == Size(queries)
           q  == NewPtr(device)
           h1 == CudaMalloc(device, q)
           ri == NewPtr(h1)
           h2 == CudaMalloc(h1, ri)
           rd == NewPtr(h2)
           h3 == CudaMalloc(h2, rd)
       IN  /\ indices' = Resize(indices, n)
           /\ distances' = Resize(distances, n)
           /\ device' = CudaMemcpyTo(h3, q, queries)
           /\ kernel' = [nodes |-> gpu_nodes, pts |-> gpu_points, num_pts |-> num_points,
                         queries |-> q, num_queries |-> n, ret_index |-> ri,
                         ret_dist |-> rd, distFunc |-> gpuDistanceFunc]
           /\ workers' = [idx \in Threads(n) |-> IdleWorker("start")]
    /\ pc' = "search"
    /\ UNCHANGED <<data, queries, callerMetric, distanceFunc, gpuDistanceFunc, treeVars,
                   buildVars, fixedVars, histVars, builtWith>>

\* The heap after the first k of the cudaMalloc calls of lines 182-191.
RECURSIVE Allocated(_, _)
Allocated(heap, k) == IF k = 0 THEN heap ELSE Allocated(CudaMalloc(heap, NewPtr(heap)), k - 1)

\* lines 172-196 with a device call that fails after k of the three buffers
\* were allocated: the outputs are resized, no kernel is launched.
KnnSearchLaunchAbort ==
    /\ pc = "idle"
    /\ TreeUsable
    /\ lastCall' = "knnSearch"
    /\ indices' = Resize(indices, Size(queries))
    /\ distances' = Resize(distances, Size(queries))
    /\ \E k \in 0..3 : device' = Allocated(device, k)
    /\ pc' = GpuErrchkFailed
    /\ UNCHANGED <<data, queries, callerMetric, distanceFunc, gpuDistanceFunc, treeVars,
                   buildVars, kernel, workers, fixedVars, histVars, builtWith>>

\* lines 124-127: a thread past the end of the batch returns.
KernelReturn(idx) ==
    /\ workers[idx].pc = "start"
    /\ idx >= kernel.num_queries
    /\ workers' = [workers EXCEPT ![idx] = IdleWorker("done")]
    /\ UNCHANGED <<callerVars, distanceFunc, gpuDistanceFunc, treeVars, device, pc,
                   buildVars, kernel, fixedVars, histVars, builtWith, lastCall>>

\* line 129 and lines 47-54: the thread enters KNNSearch.
KernelEnter(idx) ==
    /\ workers[idx].pc = "start"
    /\ idx < kernel.num_queries
    /\ workers' = [workers EXCEPT ![idx] = KNNSearchEntry]
    /\ UNCHANGED <<callerVars, distanceFunc, gpuDistanceFunc, treeVars, device, pc,
                   buildVars, kernel, fixedVars, histVars, builtWith, lastCall>>

\* One iteration of the loop of KNNSearch in thread idx.
KernelStep(idx) ==
    /\ workers[idx].pc = "loop"
    /\ LoopCondition(workers[idx])
    /\ \E w \in KNNSearchStep(workers[idx], device[kernel.nodes], device[kernel.pts],
                              device[kernel.queries][idx], kernel.distFunc, stackSize) :
         workers' = [workers EXCEPT ![idx] = w]
    /\ UNCHANGED <<callerVars, distanceFunc, gpuDistanceFunc, treeVars, device, pc,
                   buildVars, kernel, fixedVars, histVars, builtWith, lastCall>>

\* The loop has ended: its condition is false, or it broke out.
Returning(w) == IF w.pc = "loop" THEN ~LoopCondition(w) ELSE w.pc = "exit"

\* Every thread writing the first cell.
ResultSlotFirst(idx) == 0

\* The cell of the result arrays thread idx writes, line 129.
ResultSlot(idx) == idx

\* lines 105-106, after the loop or its break: the thread writes its result.
KernelWrite(idx) ==
    /\ Returning(workers[idx])
    /\ LET w == workers[idx]
           slot == ResultSlot(idx)
           Store(cells, v) == [i \in DOMAIN cells \cup {slot} |->
                                 IF i = slot THEN v ELSE cells[i]]
       IN  device' = [device EXCEPT
                        ![kernel.ret_index] = Store(@, w.best_idx),
                        ![kernel.ret_dist]  = Store(@, w.best_dist)]
    /\ workers' = [workers EXCEPT ![idx].pc = "done"]
    /\ UNCHANGED <<callerVars, distanceFunc, gpuDistanceFunc, treeVars, pc,
                   buildVars, kernel, fixedVars, histVars, builtWith, lastCall>>

\* cudaMemcpy device to host of the cells D: a cell no thread wrote holds
\* whatever the allocation held before.
Garbage == {-1, 0}
CudaMemcpyFrom(cells, D) ==
    {v \in [D -> Garbage \cup {cells[i] : i \in DOMAIN cells}] :
        \A i \in D : i \in DOMAIN cells => v[i] = cells[i]}

\* lines 204-211: every thread has returned; the results are copied back and
\* the three buffers freed.
KnnSearchFinish ==
    /\ pc = "search"
    /\ \A idx \in DOMAIN workers : workers[idx].pc = "done"
    /\ indices' \in CudaMemcpyFrom(device[kernel.ret_index], DOMAIN indices)
    /\ distances' \in CudaMemcpyFrom(device[kernel.ret_dist], DOMAIN distances)
    /\ device' = CudaFree(CudaFree(CudaFree(device, kernel.queries), kernel.ret_index),
                          kernel.ret_dist)
    /\ kernel' = NoKernel
    /\ workers' = EmptyVec
    /\ pc' = "idle"
    /\ UNCHANGED <<data, queries, callerMetric, distanceFunc, gpuDistanceFunc, treeVars,
                   buildVars, fixedVars, histVars, builtWith, lastCall>>

\* lines 202-207 with a call that fails: the launch or a thread of it raised
\* an error, or a copy back failed; lines 209-211 are not reached.
KnnSearchFinishAbort ==
    /\ pc = "search"
    /\ \A idx \in DOMAIN workers : workers[idx].pc \in {"done", "undefined"}
    /\ pc' = GpuErrchkFailed
    /\ UNCHANGED <<callerVars, distanceFunc, gpuDistanceFunc, treeVars, device,
                   buildVars, kernel, workers, fixedVars, histVars, builtWith, lastCall>>

---------------------------------------------------------------------------
(* The inputs of the model and its specifications.                         *)

Pt(x, y) == Vec(<<x, y>>)

\* The points the caller builds from, and the queries it asks.
Pool == {Pt(0, 0), Pt(1, 0), Pt(0, 1), Pt(1, 2), Pt(0, 3)}
QueryPool == Pool \cup {Pt(1, 1), Pt(0, 2)}

\* The vectors of k distinct elements of P, and of at most n.
VecsOf(P, k) == {Vec(s) : s \in {t \in [1..k -> P] : \A i, j \in 1..k : t[i] = t[j] => i = j}}
VecsUpTo(P, n) == UNION {VecsOf(P, k) : k \in 0..n}

\* The batches of k queries from Q.
Batches(Q, k) == {Vec(s) : s \in [1..k -> Q]}

\* The result vectors the caller passes in: empty, or left over from other use.
Leftover == Vec(<<7, 7>>)

\* No build has completed.
NoBuild == [n |-> -1, src |-> EmptyVec, nodes |-> EmptyVec, pts |-> EmptyVec]

\* The state after construction, lines 132-134, with the caller's inputs.
InitWith(D, Q, M, S, B, O) ==
    /\ data \in D
    /\ queries \in Q
    /\ callerMetric \in M
    /\ stackSize \in S
    /\ buildsLeft = B
    /\ indices \in O
    /\ distances = indices
    /\ distanceFunc = "euclidean_distance"
    /\ gpuDistanceFunc = "gpu_euclidean_distance"
    /\ num_points = 0
    /\ tree_valid = FALSE
    /\ gpu_nodes = NULL
    /\ gpu_points = NULL
    /\ device = EmptyVec
    /\ pc = "idle"
    /\ nodeCount = 0
    /\ cpu_nodes = EmptyVec
    /\ ranges_to_process = << >>
    /\ kernel = NoKernel
    /\ workers = EmptyVec
    /\ builtWith = "none"
    /\ lastCall = "none"
    /\ original = data
    /\ lastBuild = NoBuild
    /\ nthMemo = EmptyVec

\* One build from at most MaxPoints points and searches for one query, with
\* the stack of the source and any of the three distance functions.
Init == InitWith(VecsUpTo(Pool, MaxPoints), Batches(QueryPool, 1),
                 {"euclidean_distance", "taxicab_distance", "squared_distance"},
                 {CUDA_STACK_SIZE}, 1,
                 {EmptyVec, Leftover})

\* The same, with nodeStack of a capacity from 1 to MaxStack: builds of the
\* source with CUDA_STACK_SIZE set for small point sets.
StackInit == InitWith(VecsUpTo(Pool, MaxPoints), Batches(QueryPool, 1),
                      {"euclidean_distance"}, 1..MaxStack, 1, {EmptyVec})

\* Batches of one to MaxBatch queries, searched by concurrent threads, on
\* trees of a smaller pool.
BatchPool == {Pt(0, 0), Pt(1, 0), Pt(0, 1), Pt(1, 2)}
BatchQueries == {Pt(0, 0), Pt(1, 1), Pt(0, 3)}
BatchInit == InitWith(VecsUpTo(BatchPool, MaxPoints),
                      UNION {Batches(BatchQueries, k) : k \in 1..MaxBatch},
                      {"euclidean_distance"}, {CUDA_STACK_SIZE}, 1, {EmptyVec})

\* The concrete scenarios of the specification: the four corners and the
\* centre of a square in any order, and the pair (0,0), (3,4).
ScenarioPoints == {Pt(0, 0), Pt(10, 0), Pt(0, 10), Pt(10, 10), Pt(5, 5)}
ScenarioInit == InitWith(VecsOf(ScenarioPoints, 5) \cup VecsOf({Pt(0, 0), Pt(3, 4)}, 2),
                         Batches({Pt(5, 5), Pt(10, 10), Pt(3, 4)}, 1),
                         {"euclidean_distance"}, {CUDA_STACK_SIZE}, 1, {EmptyVec})

\* Two builds, the second from the vector as the first left it or restored to
\* the order of the first, with searches and a change of metric in between.
RebuildQueries == {Pt(0, 0), Pt(1, 1)}
RebuildInit == InitWith(VecsUpTo(BatchPool, MaxPoints), Batches(RebuildQueries, 1),
                        {"euclidean_distance", "taxicab_distance"},
                        {CUDA_STACK_SIZE}, 2, {EmptyVec})

\* One build and searches for one query, for runs under fairness.
LiveInit == InitWith(VecsUpTo(Pool, MaxPoints), Batches(RebuildQueries, 1),
                     {"euclidean_distance"}, {CUDA_STACK_SIZE}, 1, {EmptyVec})

Next ==
    \/ CreateVPTree
    \/ BuildSkip
    \/ BuildLeaf
    \/ BuildSplit
    \/ BuildUpload
    \/ BuildUploadAbort
    \/ CreateUpload
    \/ CreateUploadAbort
    \/ InjectDistanceFunc
    \/ KnnSearchInvalid
    \/ KnnSearchLaunch
    \/ KnnSearchLaunchAbort
    \/ \E idx \in DOMAIN workers : KernelReturn(idx)
    \/ \E idx \in DOMAIN workers : KernelEnter(idx)
    \/ \E idx \in DOMAIN workers : KernelStep(idx)
    \/ \E idx \in DOMAIN workers : KernelWrite(idx)
    \/ KnnSearchFinish
    \/ KnnSearchFinishAbort

Spec == Init /\ [][Next]_vars

StackSpec == StackInit /\ [][Next]_vars

BatchSpec == BatchInit /\ [][Next]_vars

ScenarioSpec == ScenarioInit /\ [][Next]_vars

RebuildSpec == RebuildInit /\ [][Next]_vars

\* The host thread keeps running the loop of buildFromPoints while there is a
\* range on the work list.
BuildLoop == BuildSkip \/ BuildLeaf \/ BuildSplit
FairBuildSpec == LiveInit /\ [][Next]_vars /\ WF_vars(BuildLoop)

---------------------------------------------------------------------------
(* Trees.                                                                  *)

\* The slots reachable from slot i, i included.
RECURSIVE Subtree(_, _)
Subtree(nodes, i) ==
    IF i = -1 THEN {}
    ELSE {i} \cup Subtree(nodes, nodes[i].left) \cup Subtree(nodes, nodes[i].right)

\* The vantage-point tree invariant of a node table over the points pts.
TreeInvariant(nodes, pts, f) ==
    \A i \in DOMAIN nodes :
        LET vp == pts[nodes[i].index]
        IN  /\ \A j \in Subtree(nodes, nodes[i].left) :
                 CallDistFunc(f, vp, pts[nodes[j].index]) <= nodes[i].threshold
            /\ \A j \in Subtree(nodes, nodes[i].right) :
                 CallDistFunc(f, vp, pts[nodes[j].index]) >= nodes[i].threshold

\* buildFromPoints has left its loop: the node table is complete.
TableBuilt == pc = "upload"

---------------------------------------------------------------------------
(* C2: once buildFromPoints has filled the node table, every point under    *)
(* the left child of a node is at distance <= threshold from the node's    *)
(* vantage point and every point under its right child at distance         *)
(* >= threshold, whichever admissible rearrangement nth_element chose.     *)
C2_TreeInvariant == TableBuilt => TreeInvariant(cpu_nodes, data, distanceFunc)

\* A built table with a node whose two subtrees both hold a point at exactly
\* the threshold: a tie the partition step was free to place on either side.
C2_Witness ==
    /\ TableBuilt
    /\ \E i \in DOMAIN cpu_nodes :
         /\ cpu_nodes[i].left # -1
         /\ cpu_nodes[i].right # -1
         /\ \E j \in Subtree(cpu_nodes, cpu_nodes[i].left) :
              CallDistFunc(distanceFunc, data[i], data[j]) = cpu_nodes[i].threshold
         /\ \E k \in Subtree(cpu_nodes, cpu_nodes[i].right) \ {cpu_nodes[i].right} :
              CallDistFunc(distanceFunc, data[i], data[k]) = cpu_nodes[i].threshold

---------------------------------------------------------------------------
(* C7: a search on the tree built from no points reads no entry of the     *)
(* node table or the point array and ends with best index -1.              *)
C7_EmptyTreeNoResult ==
    \A idx \in DOMAIN workers :
        (kernel.num_pts = 0 /\ idx < kernel.num_queries) =>
            /\ workers[idx].pc # "undefined"
            /\ workers[idx].pc = "done" => workers[idx].best_idx = -1

---------------------------------------------------------------------------
(* C8: knnSearch entered while tree_valid is false changes neither the      *)
(* caller's indices and distances nor the device heap, and launches no     *)
(* worker.                                                                 *)
KnnSearchEnteredInvalid ==
    /\ pc = "idle"
    /\ ~tree_valid
    /\ lastCall # "knnSearch"
    /\ lastCall' = "knnSearch"

C8_InvalidSearchIsNoop ==
    [][KnnSearchEnteredInvalid =>
         /\ indices' = indices
         /\ distances' = distances
         /\ device' = device
         /\ workers' = workers
         /\ pc' = "idle"]_vars

\* knnSearch has returned on an invalid tree, called with leftover outputs.
C8_Witness == ~tree_valid /\ lastCall = "knnSearch" /\ pc = "idle" /\ indices = Leftover

\* C8 as stated: after knnSearch on an invalid tree the result sequences are
\* also empty.
C8_AsStated ==
    (~tree_valid /\ lastCall = "knnSearch" /\ pc = "idle") =>
        (Size(indices) = 0 /\ Size(distances) = 0)

---------------------------------------------------------------------------
(* Searches in flight.                                                     *)

\* The threads of the launch that run KNNSearch, and those that have returned
\* from it.
Searchers == {idx \in DOMAIN workers : idx < kernel.num_queries}
Finished == {idx \in Searchers : workers[idx].pc = "done"}

KernelNodes == device[kernel.nodes]
KernelPoints == device[kernel.pts]
KernelQuery(idx) == device[kernel.queries][idx]

\* The exhaustive linear scan over pts: the least distance, and the first
\* index that attains it.
MinDistance(pts, q, f) ==
    CHOOSE d \in {CallDistFunc(f, q, pts[i]) : i \in DOMAIN pts} :
        \A i \in DOMAIN pts : d <= CallDistFunc(f, q, pts[i])

LinearScan(pts, q, f) ==
    LET d == MinDistance(pts, q, f)
    IN  [index |-> CHOOSE i \in DOMAIN pts :
                      /\ CallDistFunc(f, q, pts[i]) = d
                      /\ \A j \in DOMAIN pts : CallDistFunc(f, q, pts[j]) = d => i <= j,
         dist  |-> d]

\* f is symmetric and satisfies the triangle inequality on the points P.
MetricOn(f, P) ==
    \A a, b \in P :
        /\ CallDistFunc(f, a, b) = CallDistFunc(f, b, a)
        /\ \A c \in P : CallDistFunc(f, a, c) <= CallDistFunc(f, a, b) + CallDistFunc(f, b, c)

\* The launch searches a non-empty tree with the twin of the metric the tree
\* was built with, and that metric is one on the points and the query.
MetricSearch(idx) ==
    /\ kernel.num_pts >= 1
    /\ kernel.distFunc = GpuTwin(builtWith)
    /\ MetricOn(kernel.distFunc, {KernelPoints[i] : i \in DOMAIN KernelPoints}
                                     \cup {KernelQuery(idx)})

---------------------------------------------------------------------------
(* C1, as amended: under a metric, KNNSearch returns the least distance     *)
(* from the query to a point of the tree, and the index of a point at that *)
(* distance.                                                               *)
C1_ExactDistance ==
    \A idx \in Finished :
        MetricSearch(idx) =>
            LET w == workers[idx]
                f == kernel.distFunc
            IN  /\ w.best_idx \in DOMAIN KernelPoints
                /\ w.best_dist = MinDistance(KernelPoints, KernelQuery(idx), f)
                /\ CallDistFunc(f, KernelQuery(idx), KernelPoints[w.best_idx]) = w.best_dist

\* A finished search under the injected L1 metric that found its answer below
\* the root, in a tree of at least three points, after pruning a subtree.
C1_Witness ==
    \E idx \in Finished :
        /\ MetricSearch(idx)
        /\ kernel.distFunc = "gpu_taxicab_distance"
        /\ kernel.num_pts >= 3
        /\ workers[idx].best_idx >= 2
        /\ workers[idx].best_dist > 0

\* C1 as stated: the index is also the one the linear scan selects.
C1_AsStated ==
    \A idx \in Finished :
        MetricSearch(idx) =>
            LET w == workers[idx]
                scan == LinearScan(KernelPoints, KernelQuery(idx), kernel.distFunc)
            IN  w.best_idx = scan.index /\ w.best_dist = scan.dist

---------------------------------------------------------------------------
(* The stack of KNNSearch.                                                 *)

Max(a, b) == IF a >= b THEN a ELSE b

\* The number of nodes on the longest path from slot i down to a leaf.
RECURSIVE Depth(_, _)
Depth(nodes, i) ==
    IF i = -1 THEN 0
    ELSE 1 + Max(Depth(nodes, nodes[i].left), Depth(nodes, nodes[i].right))

\* ceil(log2(n)) for n >= 1.
CeilLog2(n) == CHOOSE k \in 0..n : 2^k >= n /\ (k = 0 \/ 2^(k - 1) < n)

(* C3: no push of KNNSearch writes a slot of nodeStack outside 0..S-1,     *)
(* whatever the tree and the query.                                        *)
C3_NoWritePastStack ==
    \A idx \in Searchers : workers[idx].maxSlot <= stackSize - 1

(* C4: on a tree of depth at most S-1 the stack of a search never holds    *)
(* more than S entries, no push writes past slot S-1, and the search never *)
(* breaks out with the failure sentinel (-1, -1.0).                        *)
C4_ShallowTreeFits ==
    \A idx \in Searchers :
        (kernel.num_pts >= 1 /\ Depth(KernelNodes, 0) <= stackSize - 1) =>
            LET w == workers[idx]
            IN  /\ w.stackPtr + 1 <= stackSize
                /\ w.maxSlot <= stackSize - 1
                /\ w.pc # "exit"
                /\ ~(w.best_idx = -1 /\ w.best_dist = -1)

\* A finished search on a tree of depth exactly S-1 that filled the stack to
\* its last slot.
C4_Witness ==
    \E idx \in Finished :
        /\ kernel.num_pts >= 1
        /\ Depth(KernelNodes, 0) = stackSize - 1
        /\ workers[idx].maxSlot = stackSize - 1
        /\ workers[idx].best_idx # -1

(* C5: with S = ceil(log2(N)) + 1 for a tree of N >= 1 points, the stack   *)
(* pointer of a search stays below S and no slot at index >= S is written. *)
C5_LogStackSuffices ==
    \A idx \in Searchers :
        (kernel.num_pts >= 1 /\ stackSize = CeilLog2(kernel.num_pts) + 1) =>
            /\ workers[idx].stackPtr < stackSize
            /\ workers[idx].maxSlot < stackSize

---------------------------------------------------------------------------
(* One query searched alone.                                               *)

\* KNNSearch run from the locals w to its return: the locals it can end with.
RECURSIVE KNNSearchRun(_, _, _, _, _, _)
KNNSearchRun(w, nodes, pts, query, distFunc, S) ==
    IF w.pc = "undefined" \/ Returning(w) THEN {w}
    ELSE UNION {KNNSearchRun(v, nodes, pts, query, distFunc, S) :
                    v \in KNNSearchStep(w, nodes, pts, query, distFunc, S)}

\* The results knnSearch([query]) can give on the mirrored tree.
SoloResults(query) ==
    {<<w.best_idx, w.best_dist>> :
        w \in KNNSearchRun(KNNSearchEntry, device[gpu_nodes], device[gpu_points],
                           query, gpuDistanceFunc, stackSize)}

(* C6: during a launch a cell of the result arrays is written only by the  *)
(* thread of that index, once it has finished its own search, and threads  *)
(* past the end of the batch write nothing; after knnSearch has returned,  *)
(* indices and distances have the length of the batch and hold at every    *)
(* position the result of that query searched alone.                       *)
C6_BatchEqualsSolo ==
    /\ pc = "search" =>
         /\ DOMAIN device[kernel.ret_index] = Finished
         /\ DOMAIN device[kernel.ret_dist] = Finished
         /\ \A idx \in Finished :
              /\ device[kernel.ret_index][idx] = workers[idx].best_idx
              /\ device[kernel.ret_dist][idx] = workers[idx].best_dist
    /\ (pc = "idle" /\ tree_valid /\ lastCall = "knnSearch") =>
         /\ DOMAIN indices = DOMAIN queries
         /\ DOMAIN distances = DOMAIN queries
         /\ \A i \in DOMAIN queries :
              SoloResults(queries[i]) = {<<indices[i], distances[i]>>}

\* knnSearch has returned from a batch of several queries with different
\* answers, on a tree of several levels.
C6_Witness ==
    /\ pc = "idle" /\ tree_valid /\ lastCall = "knnSearch"
    /\ num_points >= 3
    /\ Size(queries) >= 2
    /\ indices[0] # indices[1]
    /\ indices[1] >= 1

---------------------------------------------------------------------------
(* The scenarios.                                                          *)

Range(v) == {v[i] : i \in DOMAIN v}

\* The sum over all DIM dimensions of the squared coordinate differences.
RECURSIVE SquaredSum(_, _, _)
SquaredSum(a, b, i) ==
    IF i >= DIM THEN 0 ELSE (b[i] - a[i]) * (b[i] - a[i]) + SquaredSum(a, b, i + 1)

(* C9: on the five points of the square, with the default metric, the      *)
(* queries (5,5) and (10,10) each return the index of the point equal to   *)
(* the query, with distance 0.                                             *)
C9_ScenarioFindsQueryPoint ==
    \A idx \in Finished :
        (/\ Range(KernelPoints) = ScenarioPoints
         /\ KernelQuery(idx) \in {Pt(5, 5), Pt(10, 10)}
         /\ kernel.distFunc = "gpu_euclidean_distance") =>
            /\ workers[idx].best_idx \in DOMAIN KernelPoints
            /\ KernelPoints[workers[idx].best_idx] = KernelQuery(idx)
            /\ workers[idx].best_dist = 0

\* The least Euclidean distance, squared, from the point at slot i to the
\* points of the slots J.
LeastSquaredSum(pts, i, J) ==
    CHOOSE d \in {SquaredSum(pts[i], pts[j], 0) : j \in J} :
        \A j \in J : d <= SquaredSum(pts[i], pts[j], 0)

(* C10: the default metric is the root of the squared differences summed   *)
(* over all dimensions, so the threshold the build records at a node,      *)
(* the distance from the vantage point to the nearest point of its right   *)
(* subtree, is their Euclidean distance (5 for (0,0) and (3,4)); and the   *)
(* host and the device implementation agree.                               *)
C10_MetricAccumulates ==
    /\ (TableBuilt /\ distanceFunc = "euclidean_distance") =>
         \A i \in DOMAIN cpu_nodes :
            cpu_nodes[i].right # -1 =>
                cpu_nodes[i].threshold =
                    Sqrt(LeastSquaredSum(data, i, Subtree(cpu_nodes, cpu_nodes[i].right)))
    /\ \A a \in Range(data), b \in Range(data) \cup Range(queries) :
         gpu_euclidean_distance(a, b) = euclidean_distance(a, b)

---------------------------------------------------------------------------
(* Rebuilds.                                                               *)

\* The results KNNSearch can give for query on the tree (nodes, pts).
ResultsOn(nodes, pts, query, f) ==
    {<<w.best_idx, w.best_dist>> :
        w \in KNNSearchRun(KNNSearchEntry, nodes, pts, query, f, stackSize)}

\* buildFromPoints has filled the table of a build from the sequence, and
\* with the metric, of the build before it.
SameBuildAgain ==
    /\ TableBuilt
    /\ lastBuild.n >= 0
    /\ original = lastBuild.src
    /\ distanceFunc = builtWith

(* C11: a build from the sequence the build before it started from, with   *)
(* the same metric, fills the node table with the same threshold, left and *)
(* right at every slot, leaves the points in the same final order, and so  *)
(* gives the same result for every query.                                  *)
C11_RebuildIsIdentical ==
    SameBuildAgain =>
        /\ DOMAIN cpu_nodes = DOMAIN lastBuild.nodes
        /\ \A i \in DOMAIN cpu_nodes :
              /\ cpu_nodes[i].threshold = lastBuild.nodes[i].threshold
              /\ cpu_nodes[i].left = lastBuild.nodes[i].left
              /\ cpu_nodes[i].right = lastBuild.nodes[i].right
        /\ data = lastBuild.pts
        /\ num_points >= 1 =>
              \A q \in QueryPool :
                 ResultsOn(cpu_nodes, data, q, gpuDistanceFunc) =
                     ResultsOn(lastBuild.nodes, lastBuild.pts, q, gpuDistanceFunc)

\* A second build of at least three points from the restored sequence, which
\* the build permutes, where nth_element had a tie to place.
C11_Witness ==
    /\ SameBuildAgain
    /\ num_points >= 3
    /\ data # original
    /\ \E i \in DOMAIN cpu_nodes :
         /\ cpu_nodes[i].left # -1
         /\ cpu_nodes[i].right # -1
         /\ \E j \in Subtree(cpu_nodes, cpu_nodes[i].left) :
              CallDistFunc(distanceFunc, data[i], data[j]) = cpu_nodes[i].threshold

---------------------------------------------------------------------------
(* C12: whenever tree_valid is true, gpu_nodes and gpu_points are both     *)
(* allocated, hold the node table and the point array of one and the same  *)
(* completed build, and num_points is that build's point count; tree_valid *)
(* is false until a build has completed.  A rebuild in progress is no      *)
(* exception.                                                              *)
C12_ValidMeansMirrored ==
    tree_valid =>
        /\ lastBuild.n >= 0
        /\ gpu_nodes \in DOMAIN device
        /\ gpu_points \in DOMAIN device
        /\ device[gpu_nodes] = lastBuild.nodes
        /\ device[gpu_points] = lastBuild.pts
        /\ num_points = lastBuild.n

---------------------------------------------------------------------------
(* C13: when a device call of createVPTree fails on a tree that was valid, *)
(* the previous node table and point array are still allocated with their  *)
(* previous contents and num_points is the previous count; when it fails   *)
(* in the first build, tree_valid stays false.                             *)
CreateAborted == pc = GpuErrchkFailed /\ lastCall = "createVPTree"

C13_FailedRebuildKeepsMirror ==
    CreateAborted =>
        IF lastBuild.n >= 0
        THEN /\ tree_valid
             /\ gpu_nodes \in DOMAIN device
             /\ gpu_points \in DOMAIN device
             /\ device[gpu_nodes] = lastBuild.nodes
             /\ device[gpu_points] = lastBuild.pts
             /\ num_points = lastBuild.n
        ELSE ~tree_valid

---------------------------------------------------------------------------
(* Device allocations.                                                     *)

\* The device pointers the object and the call in progress hold.
MirrorPointers == {gpu_nodes, gpu_points} \ {NULL}
LaunchPointers ==
    IF pc = "search" THEN {kernel.queries, kernel.ret_index, kernel.ret_dist} ELSE {}

(* C14: as long as no device call has failed, the live device allocations  *)
(* are exactly those the object points to, and during a knnSearch its      *)
(* three buffers: a rebuild frees the old node table and point array       *)
(* before it allocates the new, every pointer handed to cudaFree is live   *)
(* (nothing is freed twice), and after completed calls on a valid tree     *)
(* what remains is one node table and one point array, both of the latest  *)
(* build.                                                                  *)
C14_NoLeakNoDoubleFree ==
    pc # GpuErrchkFailed =>
        /\ DOMAIN device = MirrorPointers \cup LaunchPointers
        /\ pc = "search" => Cardinality(LaunchPointers \ MirrorPointers) = 3
        /\ (pc = "idle" /\ tree_valid) =>
              /\ Cardinality(DOMAIN device) = 2
              /\ device[gpu_nodes] = lastBuild.nodes
              /\ device[gpu_points] = lastBuild.pts

\* Two builds of several points have completed, and a knnSearch after them.
C14_Witness ==
    /\ pc = "idle"
    /\ tree_valid
    /\ buildsLeft = 0
    /\ lastCall = "knnSearch"
    /\ num_points >= 2
    /\ Cardinality(DOMAIN device) = 2

---------------------------------------------------------------------------
(* The work list of buildFromPoints.                                       *)

\* The range on top of the work list, taken by the next iteration.
TopRange == ranges_to_process[Len(ranges_to_process)]
Building == pc = "build" /\ ranges_to_process # << >>

(* C15: buildFromPoints records the node of a range [lower, upper) in the  *)
(* slot lower, with index lower; so in the finished table a left value is  *)
(* the slot next to its node's and a right value the slot after the left   *)
(* subtree, each the slot of the node whose vantage point is the first     *)
(* element of the child range, and the root is at slot 0.                  *)
C15_SlotIsVantagePosition ==
    /\ (Building /\ TopRange[1] # TopRange[2]) => TopRange[1] = nodeCount
    /\ pc \in {"build", "upload"} =>
          \A i \in 0..(nodeCount - 1) :
             /\ cpu_nodes[i].index = i
             /\ cpu_nodes[i].left \in {-1, i + 1}
             /\ cpu_nodes[i].right = -1 \/ cpu_nodes[i].right > i
    /\ TableBuilt =>
          /\ num_points >= 1 => Subtree(cpu_nodes, 0) = DOMAIN cpu_nodes
          /\ \A i \in DOMAIN cpu_nodes :
                LET l == cpu_nodes[i].left
                    r == cpu_nodes[i].right
                IN  /\ l # -1 => (l \in DOMAIN cpu_nodes /\ cpu_nodes[l].index = l)
                    /\ r # -1 => (r \in DOMAIN cpu_nodes /\ cpu_nodes[r].index = r)
                    /\ (l # -1 /\ r # -1) => Subtree(cpu_nodes, l) = (i + 1)..(r - 1)
                    /\ (l = -1 /\ r # -1) => r = i + 1

\* A finished table of four nodes: the root with both children, its right
\* child with a right child of its own.
C15_Witness ==
    /\ TableBuilt
    /\ num_points = 4
    /\ cpu_nodes[0].left = 1
    /\ cpu_nodes[0].right = 2
    /\ cpu_nodes[2].right = 3

---------------------------------------------------------------------------
\* The sizes of the ranges of the work list, summed.
RECURSIVE PendingPoints(_)
PendingPoints(ranges) ==
    IF ranges = << >> THEN 0
    ELSE (Head(ranges)[2] - Head(ranges)[1]) + PendingPoints(Tail(ranges))

\* The ranges of the work list, from the top down, follow one another from
\* nodeCount to N: with the slots filled they partition [0, N).
WorkListPartitions ==
    LET n == Len(ranges_to_process)
    IN  /\ \A k \in 1..n : ranges_to_process[k][1] <= ranges_to_process[k][2]
        /\ n > 0 => /\ ranges_to_process[n][1] = nodeCount
                    /\ ranges_to_process[1][2] = num_points
        /\ \A k \in 2..n : ranges_to_process[k][2] = ranges_to_process[k - 1][1]

\* The loop of buildFromPoints has ended.
LoopEnded == pc = "build" /\ ranges_to_process = << >>

(* C16: the loop of buildFromPoints ends, with the work list empty and     *)
(* exactly N nodes recorded; until then nodeCount never exceeds N, the     *)
(* ranges still on the list partition the points not yet recorded, and an  *)
(* iteration records one node for a non-empty range and none for an empty  *)
(* one.                                                                    *)
C16_BuildTerminates ==
    /\ [](pc = "build" =>
            /\ nodeCount <= num_points
            /\ WorkListPartitions
            /\ nodeCount + PendingPoints(ranges_to_process) = num_points)
    /\ [][Building => nodeCount' = nodeCount +
                          (IF TopRange[1] = TopRange[2] THEN 0 ELSE 1)]_vars
    /\ (pc = "build") ~> (LoopEnded /\ nodeCount = num_points)

\* The loop has ended on four points, empty ranges taken on the way.
C16_Witness == LoopEnded /\ num_points = 4 /\ nodeCount = 4

---------------------------------------------------------------------------
(* The traversal of KNNSearch.                                             *)

\* The search of thread idx has left its loop.
LoopLeft(idx) == workers[idx].pc = "done" \/ Returning(workers[idx])

\* The search of thread idx broke out of its loop at line 82 or 97.
OverflowDetected(idx) == workers[idx].best_idx = -1 /\ workers[idx].best_dist = -1

(* C17: on a tree of at least one point the loop of KNNSearch ends: no     *)
(* node is made current a second time, which bounds the iterations by the  *)
(* nodes and the entries pushed for them, and the loop is left only with   *)
(* current none and the stack emptied down to and including its sentinel,  *)
(* or by the break on detected overflow.                                   *)
C17_SearchTerminates ==
    \A idx \in Searchers :
        kernel.num_pts >= 1 =>
            /\ NoRepeat(workers[idx].visited)
            /\ LoopLeft(idx) =>
                  \/ workers[idx].currNodeIdx = -1 /\ workers[idx].stackPtr = -1
                  \/ OverflowDetected(idx)

\* C17 for the searches that have written no slot past the end of nodeStack.
SearchTerminatesInsideStack ==
    \A idx \in Searchers :
        (kernel.num_pts >= 1 /\ workers[idx].maxSlot <= stackSize - 1) =>
            /\ NoRepeat(workers[idx].visited)
            /\ LoopLeft(idx) =>
                  (workers[idx].currNodeIdx = -1 /\ workers[idx].stackPtr = -1)

---------------------------------------------------------------------------
(* C18: a search that needed more than S entries of nodeStack, that is,    *)
(* pushed into a slot S or higher, returns the failure sentinel: index -1  *)
(* and distance -1.0 are what its thread writes to the result arrays.      *)
(* (That one thread's result leaves the other threads' alone is C6.)       *)
C18_OverflowGivesSentinel ==
    \A idx \in Finished :
        (kernel.num_pts >= 1 /\ workers[idx].maxSlot >= stackSize) =>
            /\ OverflowDetected(idx)
            /\ device[kernel.ret_index][idx] = -1
            /\ device[kernel.ret_dist][idx] = -1

---------------------------------------------------------------------------
(* The best-so-far of a traversal.                                         *)

\* The threads inside KNNSearch or returned from it, overflow not detected.
Traversing ==
    {idx \in Searchers : /\ workers[idx].pc \in {"loop", "done"}
                         /\ ~OverflowDetected(idx)
                         /\ kernel.num_pts >= 1}

\* The distance from the query of thread idx to the k-th node it visited.
VisitDist(idx, k) ==
    CallDistFunc(kernel.distFunc, KernelQuery(idx), KernelPoints[workers[idx].visited[k]])

\* The first of the visits of thread idx that is at the least distance.
FirstNearest(idx) ==
    CHOOSE k \in 1..Len(workers[idx].visited) :
        /\ \A j \in 1..Len(workers[idx].visited) : VisitDist(idx, k) <= VisitDist(idx, j)
        /\ \A j \in 1..(k - 1) : VisitDist(idx, j) > VisitDist(idx, k)

(* C19: the best-so-far is replaced only by a strictly nearer point, so    *)
(* among the points visited at the least distance from the query the       *)
(* index returned is that of the one visited first.                        *)
C19_TiesKeepFirstVisited ==
    \A idx \in Traversing :
        workers[idx].visited # << >> =>
            /\ workers[idx].best_idx = workers[idx].visited[FirstNearest(idx)]
            /\ workers[idx].best_dist = VisitDist(idx, FirstNearest(idx))

\* A returned search that visited two points at the least distance, the
\* second of them at the lower index, and returned the first.
C19_Witness ==
    \E idx \in Traversing :
        /\ workers[idx].pc = "done"
        /\ \E k \in 1..Len(workers[idx].visited) :
             /\ k > FirstNearest(idx)
             /\ VisitDist(idx, k) = VisitDist(idx, FirstNearest(idx))
             /\ workers[idx].visited[k] < workers[idx].best_idx

---------------------------------------------------------------------------
\* The least distance from the query of thread idx to a node it has visited.
LeastVisitDist(idx) == VisitDist(idx, FirstNearest(idx))

\* One step of a thread inside KNNSearch does not raise its tau.
TauNeverIncreases ==
    \A idx \in DOMAIN workers :
        (/\ idx \in DOMAIN workers'
         /\ workers[idx].pc = "loop"
         /\ workers'[idx].pc \in {"loop", "done"}) =>
            workers'[idx].tau <= workers[idx].tau

(* C20: at every step of a traversal that has not detected overflow, tau   *)
(* equals best_dist and never increases, best_idx is -1 exactly as long as *)
(* no node has been visited, and once it is not -1, best_dist is the       *)
(* distance from the query to pts[best_idx] and the least distance to any  *)
(* node visited so far.                                                    *)
C20_BestSoFarInvariant ==
    /\ [](\A idx \in Traversing :
            LET w == workers[idx]
            IN  /\ w.tau = w.best_dist
                /\ (w.best_idx = -1) <=> (w.visited = << >>)
                /\ w.best_idx # -1 =>
                      /\ w.best_idx \in DOMAIN KernelPoints
                      /\ w.best_dist = CallDistFunc(kernel.distFunc, KernelQuery(idx),
                                                    KernelPoints[w.best_idx])
                      /\ w.best_dist = LeastVisitDist(idx))
    /\ [][TauNeverIncreases]_vars

\* A search still in its loop whose tau has come down three times: each of
\* its first three visits was nearer than the one before.
C20_Witness ==
    \E idx \in Traversing :
        /\ workers[idx].pc = "loop"
        /\ Len(workers[idx].visited) >= 3
        /\ VisitDist(idx, 1) > VisitDist(idx, 2)
        /\ VisitDist(idx, 2) > VisitDist(idx, 3)
        /\ workers[idx].tau = VisitDist(idx, 3)

====
